---- MODULE Spec2Model ----
(***************************************************************************)
(* Model of colorCodeTrackingAlgoV02.cpp: tracking of a 2-color-code       *)
(* marker from per-channel bounding rectangles.                            *)
(*                                                                         *)
(* Sequences are 1-based here and 0-based in the source: element i of a    *)
(* vector is element i+1 of the sequence that models it.                   *)
(***************************************************************************)
EXTENDS Integers, Sequences, FiniteSets, TLC

(***************************************************************************)
(* Bounds of the model.                                                    *)
(***************************************************************************)
\* longest region list handed to one getCCRectBinary call
MaxRects == 2
\* most blobs one frame holds, over its three channel masks
MaxBlobs == 3
\* the frame's size in pixels
FrameW == 2
FrameH == 1
\* most frames one run of the program processes
MaxFrames == 2
\* most right-button-up events one run of the program receives
MaxToggles == 2
\* most blobs of one channel mask, in the frames of SpecUsage
MaxPerChannel == 2

(***************************************************************************)
(* Program constants.                                                      *)
(***************************************************************************)
\* #define MINAREABLOB 64
MINAREABLOB == 64
\* Rect myCCRects[21]
NCCRects == 21
\* int dilateFactor = 35
dilateFactor == 35

(***************************************************************************)
(* cv::Rect and its operators, as getCCRectBinary uses them.               *)
(***************************************************************************)
Rect(x, y, w, h) == [x |-> x, y |-> y, width |-> w, height |-> h]

\* Rect(): the default-constructed rectangle
EmptyRect == Rect(0, 0, 0, 0)

Min2(a, b) == IF a < b THEN a ELSE b
Max2(a, b) == IF a > b THEN a ELSE b

\* Rect::area()
Area(r) == r.width * r.height

\* a & b: the overlap of two rectangles, Rect() when they do not overlap
RectAnd(a, b) ==
    LET x1 == Max2(a.x, b.x)
        y1 == Max2(a.y, b.y)
        w  == Min2(a.x + a.width, b.x + b.width) - x1
        h  == Min2(a.y + a.height, b.y + b.height) - y1
    IN  IF w <= 0 \/ h <= 0 THEN EmptyRect ELSE Rect(x1, y1, w, h)

\* a | b: the smallest rectangle enclosing both (both non-empty at the call)
RectOr(a, b) ==
    LET x1 == Min2(a.x, b.x)
        y1 == Min2(a.y, b.y)
    IN  Rect(x1, y1,
             Max2(a.x + a.width, b.x + b.width) - x1,
             Max2(a.y + a.height, b.y + b.height) - y1)

(***************************************************************************)
(* State.  The program's globals and main's locals, then the locals of     *)
(* detectCCBlobs and of one getCCRectBinary call.                          *)
(***************************************************************************)
VARIABLES
    \* one getCCRectBinary call: its arguments, locals and return value
    rectsChA, rectsChB, usedA, usedB, ccRects, code,
    target,        \* <<iTarget, jTarget>> once assigned, <<>> while uninitialized
    matchRet,      \* the value returned, -1 before the call returns
    matchPre       \* usedA, usedB and ccRects as they were at the call

VARIABLES
    \* detectCCBlobs: its locals, one entry per channel where there are three
    boundRect,         \* the bounding boxes of the contours found in each mask
    myFilteredRects,   \* myFilteredRects1, myFilteredRects2, myFilteredRects3
    usedRectsCh,       \* usedRectsCh1, usedRectsCh2, usedRectsCh3
    myCCRects,
    fpc,               \* the statement detectCCBlobs is at
    passLog            \* per pass run: its return value, target and the markers before it

VARIABLES
    \* one dilateRects call
    factor, myRect, dilateIn, dpc

VARIABLES
    \* main's locals and the globals it shares with onMouse
    pc,                \* where main is: "start", "loop", "waitKey", "exited", ...
    cfgFile,           \* babyMotionConfig.txt: its characters, or NoFile
    HSVMINALL, HSVMAXALL,
    trackModeFlag, channelFlag, charCheckForKey, mouseDraggedFlag, BBOX,
    imgHSV, frameCount,
    saveCalls,         \* the arguments of every saveConfigFile call so far
    frameEnd,          \* HSVMINALL, HSVMAXALL at the end of the last completed frame
    loadRet,           \* what loadConfigFile returned, -1 before it is called
    cfgKind,           \* "missing", "valid" or "corrupt": how cfgFile came to be
    prevRun,           \* the last saveConfigFile call of the run before this one
    toggles,           \* right-button-up events delivered so far
    dragEnded          \* a left-button-up event was delivered since the last
                       \* calibrating frame

matchVars == <<rectsChA, rectsChB, usedA, usedB, ccRects, code, target,
               matchRet, matchPre>>
frameVars == <<boundRect, myFilteredRects, usedRectsCh, myCCRects, fpc, passLog>>
dilateVars == <<factor, myRect, dilateIn, dpc>>
mainVars == <<pc, cfgFile, HSVMINALL, HSVMAXALL, trackModeFlag, channelFlag,
              charCheckForKey, mouseDraggedFlag, BBOX, imgHSV, frameCount,
              saveCalls, frameEnd, loadRet, cfgKind, prevRun, toggles, dragEnded>>

vars == <<matchVars, frameVars, dilateVars, mainVars>>

\* the variables of the parts a specification does not run
IdleMatch ==
    /\ rectsChA = <<>> /\ rectsChB = <<>> /\ usedA = <<>> /\ usedB = <<>>
    /\ ccRects = <<>> /\ code = 0 /\ target = <<>> /\ matchRet = -1
    /\ matchPre = <<>>
IdleFrame ==
    /\ boundRect = <<>> /\ myFilteredRects = <<>> /\ usedRectsCh = <<>>
    /\ myCCRects = <<>> /\ fpc = "idle" /\ passLog = <<>>
IdleDilate ==
    /\ factor = 0 /\ myRect = <<>> /\ dilateIn = <<>> /\ dpc = "idle"
IdleMain ==
    /\ pc = "idle" /\ cfgFile = <<>> /\ HSVMINALL = <<>> /\ HSVMAXALL = <<>>
    /\ trackModeFlag = 1 /\ channelFlag = 0 /\ charCheckForKey = 0
    /\ mouseDraggedFlag = 0 /\ BBOX = <<0, 0, 1, 1>> /\ imgHSV = <<>>
    /\ saveCalls = <<>> /\ frameEnd = <<>> /\ toggles = 0 /\ dragEnded = FALSE
    /\ loadRet = -1 /\ cfgKind = "missing" /\ prevRun = <<>> /\ frameCount = 0

(***************************************************************************)
(* getCCRectBinary (lines 291-321).                                        *)
(***************************************************************************)
\* line 298: both rectangles are still unused
PairUnusedIgnoringA(uA, uB, i, j) == uB[j] = 0
PairUnused(uA, uB, i, j) == (uA[i] = 0) /\ (uB[j] = 0)

\* lines 299-300: the two rectangles overlap
OverlapOrTouch(a, b) ==
    /\ Min2(a.x + a.width, b.x + b.width) - Max2(a.x, b.x) >= 0
    /\ Min2(a.y + a.height, b.y + b.height) - Max2(a.y, b.y) >= 0
Overlap(a, b) == Area(RectAnd(a, b)) > 0

\* lines 301-302: the area a pair is ranked by
IntersectionArea(a, b) == Area(RectAnd(a, b))
RankArea(a, b) == Area(RectOr(a, b))

\* the locals before the loops: maxArea=0, iTarget and jTarget uninitialized
ScanInit == [maxArea |-> 0, target |-> <<>>, selectedRect |-> EmptyRect]

\* lines 298-309: the body of the inner loop for vector indices i-1, j-1
ScanBody(A, B, uA, uB, i, j, acc) ==
    IF PairUnused(uA, uB, i, j) /\ Overlap(A[i], B[j])
          /\ RankArea(A[i], B[j]) > acc.maxArea
    THEN [maxArea |-> RankArea(A[i], B[j]), target |-> <<i, j>>,
          selectedRect |-> RectOr(A[i], B[j])]
    ELSE acc

\* lines 296-311: for i, for j, in that order; k counts the pairs visited
RECURSIVE ScanFrom(_, _, _, _, _, _)
ScanFrom(A, B, uA, uB, k, acc) ==
    IF k >= Len(A) * Len(B) THEN acc
    ELSE ScanFrom(A, B, uA, uB, k + 1,
                  ScanBody(A, B, uA, uB, (k \div Len(B)) + 1, (k % Len(B)) + 1, acc))

\* the whole call with the markers of B set in the else branch of line 319
getCCRectBinaryMarkingScanned(A, B, uA, uB, cc, c) ==
    LET s == ScanFrom(A, B, uA, uB, 0, ScanInit)
    IN  IF s.maxArea > 0
        THEN [ret |-> 0,
              ccRects |-> [cc EXCEPT ![c] = s.selectedRect],
              usedA |-> [uA EXCEPT ![s.target[1]] = 1],
              usedB |-> [uB EXCEPT ![s.target[2]] = 1],
              target |-> s.target]
        ELSE [ret |-> 1, ccRects |-> cc, usedA |-> uA,
              usedB |-> [j \in DOMAIN uB |-> 1], target |-> s.target]

\* the whole call: what it returns and what it leaves in its reference arguments
getCCRectBinary(A, B, uA, uB, cc, c) ==
    LET s == ScanFrom(A, B, uA, uB, 0, ScanInit)
    IN  IF s.maxArea > 0
        THEN [ret |-> 0,
              ccRects |-> [cc EXCEPT ![c] = s.selectedRect],
              usedA |-> [uA EXCEPT ![s.target[1]] = 1],
              usedB |-> [uB EXCEPT ![s.target[2]] = 1],
              target |-> s.target]
        ELSE [ret |-> 1, ccRects |-> cc, usedA |-> uA, usedB |-> uB,
              target |-> s.target]

(***************************************************************************)
(* Specification SpecMatch: getCCRectBinary as a function of its           *)
(* arguments.  The region lists are drawn from two small pools that hold   *)
(* overlapping, nested, disjoint, edge-touching and corner-touching pairs. *)
(***************************************************************************)
PoolA == { Rect(0, 0, 10, 10), Rect(15, 10, 5, 10) }
PoolB == { Rect(5, 5, 10, 10), Rect(20, 20, 5, 5), Rect(5, 5, 4, 4),
           Rect(5, 5, 20, 20) }

SeqsUpTo(S, n) == UNION { [1..k -> S] : k \in 0..n }

\* usage markers a frame can hold when a pass starts: at most one region of a
\* list was consumed by the one earlier pass the list took part in
Markers(n) == { [i \in 1..n |-> IF i = u THEN 1 ELSE 0] : u \in 0..n }

\* Rect myCCRects[21] as detectCCBlobs declares it
ZeroCC == [c \in 0..(NCCRects - 1) |-> EmptyRect]
\* myCCRects when the pass with code c starts: the slots of the earlier passes
\* are written, the others still hold Rect()
PriorCC(c) == [k \in 0..(NCCRects - 1) |->
                 IF k < c THEN Rect(k + 1, k + 2, k + 3, k + 4) ELSE EmptyRect]

InitMatch ==
    /\ rectsChA \in SeqsUpTo(PoolA, MaxRects)
    /\ rectsChB \in SeqsUpTo(PoolB, MaxRects)
    /\ usedA \in Markers(Len(rectsChA))
    /\ usedB \in Markers(Len(rectsChB))
    /\ code \in 0..2
    /\ ccRects = PriorCC(code)
    /\ target = <<>>
    /\ matchRet = -1
    /\ matchPre = [usedA |-> usedA, usedB |-> usedB, ccRects |-> ccRects]
    /\ IdleFrame /\ IdleDilate /\ IdleMain

\* the call runs to its return
MatchCall ==
    /\ matchRet = -1
    /\ \E r \in {getCCRectBinary(rectsChA, rectsChB, usedA, usedB, ccRects, code)} :
           /\ matchRet' = r.ret
           /\ usedA' = r.usedA
           /\ usedB' = r.usedB
           /\ ccRects' = r.ccRects
           /\ target' = r.target
    /\ UNCHANGED <<rectsChA, rectsChB, code, matchPre, frameVars, dilateVars, mainVars>>

NextMatch == MatchCall

SpecMatch == InitMatch /\ [][NextMatch]_vars

(***************************************************************************)
(* Specification SpecOrder: getCCRectBinary on region lists in which two   *)
(* overlapping pairs can have unions of the same area: (0,0,10,10) and     *)
(* (10,10,10,10) each give a union of area 225 with (5,5,10,10).           *)
(***************************************************************************)
TiePoolA == { Rect(0, 0, 10, 10), Rect(10, 10, 10, 10) }
TiePoolB == { Rect(5, 5, 10, 10), Rect(40, 40, 5, 5) }

InitOrder ==
    /\ rectsChA \in SeqsUpTo(TiePoolA, MaxRects)
    /\ rectsChB \in SeqsUpTo(TiePoolB, MaxRects)
    /\ usedA \in Markers(Len(rectsChA))
    /\ usedB \in Markers(Len(rectsChB))
    /\ code \in 0..2
    /\ ccRects = PriorCC(code)
    /\ target = <<>>
    /\ matchRet = -1
    /\ matchPre = [usedA |-> usedA, usedB |-> usedB, ccRects |-> ccRects]
    /\ IdleFrame /\ IdleDilate /\ IdleMain

NextOrder == MatchCall

SpecOrder == InitOrder /\ [][NextOrder]_vars

(***************************************************************************)
(* getThresholdRects (lines 228-246).  findContours, approxPolyDP and      *)
(* boundingRect are OpenCV's; their result, one bounding box per contour,  *)
(* is the input boundRect.                                                 *)
(***************************************************************************)
\* line 242: the blob is big enough to keep
AreaAtLeastMin(r) == Area(r) >= MINAREABLOB
AreaAboveMin(r) == Area(r) > MINAREABLOB

\* lines 239-245: the loop from contour i on, appending to filteredRect
RECURSIVE FilterFrom(_, _, _)
FilterFrom(boxes, i, filteredRect) ==
    IF i > Len(boxes) THEN filteredRect
    ELSE FilterFrom(boxes, i + 1,
                    IF AreaAboveMin(boxes[i]) THEN Append(filteredRect, boxes[i])
                    ELSE filteredRect)

getThresholdRects(boxes, filteredRect) == FilterFrom(boxes, 1, filteredRect)

(***************************************************************************)
(* dilateRects (lines 258-271).  All operands are non-negative, so C's     *)
(* truncating division is \div.                                            *)
(***************************************************************************)
\* lines 262-267 with the top-left corner moved by the whole growth
dilateOneUnhalved(f, r) ==
    LET dW == (r.width * f) \div 100
        dH == (r.height * f) \div 100
    IN  Rect(r.x - dW, r.y - dH, r.width + dW, r.height + dH)

\* lines 262-267: one rectangle of the vector
dilateOne(f, r) ==
    LET dW == (r.width * f) \div 100
        dH == (r.height * f) \div 100
    IN  Rect(r.x - (dW \div 2), r.y - (dH \div 2), r.width + dW, r.height + dH)

dilateRects(f, rects) == [i \in 1..Len(rects) |-> dilateOne(f, rects[i])]

(***************************************************************************)
(* detectCCBlobs (lines 153-222), from the bounding boxes of the three     *)
(* masks on.  Drawing on imgOriginal is output only and is left out.       *)
(***************************************************************************)
\* lines 212, 215, 218 with the pairs taken in an order that starts at the
\* active channel
PassChannelsFromActive(c) ==
    <<<<1, 2>>, <<1, 3>>, <<2, 3>>>>[((c + channelFlag) % 3) + 1]
\* lines 212, 215, 218: the channels the pass with code c pairs
PassChannels(c) == IF c = 0 THEN <<1, 2>> ELSE IF c = 1 THEN <<1, 3>> ELSE <<2, 3>>

\* lines 188-190
FrameExtract ==
    /\ fpc = "extract"
    /\ myFilteredRects' = [ch \in 1..3 |-> getThresholdRects(boundRect[ch], <<>>)]
    /\ fpc' = "dilate"
    /\ UNCHANGED <<boundRect, usedRectsCh, myCCRects, passLog, matchVars, dilateVars, mainVars>>

\* lines 193-195
FrameDilate ==
    /\ fpc = "dilate"
    /\ myFilteredRects' = [ch \in 1..3 |-> dilateRects(dilateFactor, myFilteredRects[ch])]
    /\ fpc' = "markers"
    /\ UNCHANGED <<boundRect, usedRectsCh, myCCRects, passLog, matchVars, dilateVars, mainVars>>

\* lines 208-210 with the first marker of every channel set
FrameMarkersFirstSet ==
    /\ fpc = "markers"
    /\ usedRectsCh' = [ch \in 1..3 |->
                         [i \in 1..Len(myFilteredRects[ch]) |-> IF i = 1 THEN 1 ELSE 0]]
    /\ fpc' = "pass12"
    /\ UNCHANGED <<boundRect, myFilteredRects, myCCRects, passLog, matchVars, dilateVars, mainVars>>

\* lines 208-210
FrameMarkers ==
    /\ fpc = "markers"
    /\ usedRectsCh' = [ch \in 1..3 |-> [i \in 1..Len(myFilteredRects[ch]) |-> 0]]
    /\ fpc' = "pass12"
    /\ UNCHANGED <<boundRect, myFilteredRects, myCCRects, passLog, matchVars, dilateVars, mainVars>>

\* one of the three calls of lines 212-220, with the frame given up when the
\* call finds nothing
FramePassUntilEmpty(c, here, next) ==
    /\ fpc = here
    /\ \E r \in {getCCRectBinary(myFilteredRects[PassChannels(c)[1]],
                                 myFilteredRects[PassChannels(c)[2]],
                                 usedRectsCh[PassChannels(c)[1]],
                                 usedRectsCh[PassChannels(c)[2]], myCCRects, c)} :
           /\ usedRectsCh' = [usedRectsCh EXCEPT ![PassChannels(c)[1]] = r.usedA,
                                                 ![PassChannels(c)[2]] = r.usedB]
           /\ myCCRects' = r.ccRects
           /\ passLog' = Append(passLog, [code |-> c, ret |-> r.ret, target |-> r.target,
                                          usedBefore |-> usedRectsCh])
           /\ fpc' = IF r.ret = 0 THEN next ELSE "aborted"
    /\ UNCHANGED <<boundRect, myFilteredRects, matchVars, dilateVars, mainVars>>

\* one of the three calls of lines 212-220
FramePass(c, here, next) ==
    /\ fpc = here
    /\ LET chA == PassChannels(c)[1]
           chB == PassChannels(c)[2]
       IN  \E r \in {getCCRectBinary(myFilteredRects[chA], myFilteredRects[chB],
                                     usedRectsCh[chA], usedRectsCh[chB], myCCRects, c)} :
              /\ usedRectsCh' = [usedRectsCh EXCEPT ![chA] = r.usedA, ![chB] = r.usedB]
              /\ myCCRects' = r.ccRects
              /\ passLog' = Append(passLog, [code |-> c, ret |-> r.ret,
                                             target |-> r.target,
                                             usedBefore |-> usedRectsCh])
    /\ fpc' = next
    /\ UNCHANGED <<boundRect, myFilteredRects, matchVars, dilateVars, mainVars>>

FramePass12 == FramePass(0, "pass12", "pass13")
FramePass13 == FramePass(1, "pass13", "pass23")
FramePass23 == FramePass(2, "pass23", "done")

(***************************************************************************)
(* Specification SpecFrame: one call of detectCCBlobs on every frame whose *)
(* masks hold at most MaxBlobs blobs.  The boxes are 10x10 blobs close     *)
(* enough to overlap once dilated, and blobs of area 25, 64 and 65 around  *)
(* MINAREABLOB.                                                            *)
(***************************************************************************)
BlobPool == { Rect(10, 10, 10, 10), Rect(20, 10, 10, 10), Rect(40, 40, 5, 5),
              Rect(0, 30, 8, 8), Rect(30, 0, 5, 13) }

BlobCounts ==
    { n \in (0..MaxBlobs) \X (0..MaxBlobs) \X (0..MaxBlobs) :
        n[1] + n[2] + n[3] <= MaxBlobs }
FrameBlobs ==
    UNION { [1..n[1] -> BlobPool] \X [1..n[2] -> BlobPool] \X [1..n[3] -> BlobPool] :
            n \in BlobCounts }

InitFrame ==
    /\ boundRect \in FrameBlobs
    /\ myFilteredRects = <<<<>>, <<>>, <<>>>>
    /\ usedRectsCh = <<<<>>, <<>>, <<>>>>
    /\ myCCRects = ZeroCC
    /\ fpc = "extract"
    /\ passLog = <<>>
    \* the globals as main holds them when it calls detectCCBlobs (line 128):
    \* Tracking, any channel active
    /\ channelFlag \in 0..2
    /\ pc = "idle" /\ cfgFile = <<>> /\ HSVMINALL = <<>> /\ HSVMAXALL = <<>>
    /\ trackModeFlag = 1 /\ charCheckForKey = 0
    /\ mouseDraggedFlag = 0 /\ BBOX = <<0, 0, 1, 1>> /\ imgHSV = <<>>
    /\ saveCalls = <<>> /\ frameEnd = <<>> /\ toggles = 0 /\ dragEnded = FALSE
    /\ loadRet = -1 /\ cfgKind = "missing" /\ prevRun = <<>> /\ frameCount = 0
    /\ IdleMatch /\ IdleDilate

NextFrame ==
    \/ FrameExtract
    \/ FrameDilate
    \/ FrameMarkers
    \/ FramePass12
    \/ FramePass13
    \/ FramePass23

SpecFrame == InitFrame /\ [][NextFrame]_vars

(***************************************************************************)
(* Specification SpecUsage: one call of detectCCBlobs on frames with up to *)
(* MaxPerChannel blobs in each of the three masks, all big enough to be    *)
(* kept and close enough to overlap once dilated, so that two and three    *)
(* passes of one frame can succeed.                                        *)
(***************************************************************************)
UsagePool == { Rect(10, 10, 10, 10), Rect(20, 10, 10, 10) }

InitUsage ==
    /\ boundRect \in SeqsUpTo(UsagePool, MaxPerChannel)
                        \X SeqsUpTo(UsagePool, MaxPerChannel)
                        \X SeqsUpTo(UsagePool, MaxPerChannel)
    /\ myFilteredRects = <<<<>>, <<>>, <<>>>>
    /\ usedRectsCh = <<<<>>, <<>>, <<>>>>
    /\ myCCRects = ZeroCC
    /\ fpc = "extract"
    /\ passLog = <<>>
    /\ IdleMatch /\ IdleDilate /\ IdleMain

NextUsage ==
    \/ FrameExtract
    \/ FrameDilate
    \/ FrameMarkers
    \/ FramePass12
    \/ FramePass13
    \/ FramePass23

SpecUsage == InitUsage /\ [][NextUsage]_vars

(***************************************************************************)
(* Specification SpecDilate: dilateRects as a function of its arguments.   *)
(***************************************************************************)
DilatePool == { Rect(0, 0, 10, 10), Rect(7, 3, 2, 2), Rect(7, 3, 3, 2),
                Rect(5, 9, 1, 65), Rect(4, 4, 0, 0), Rect(4, 4, 7, 0),
                Rect(0, 6, 40, 13), Rect(100, 100, 100, 101) }
Factors == {0, 1, 50, 100, 250} \cup {dilateFactor}

InitDilate ==
    /\ factor \in Factors
    /\ myRect \in SeqsUpTo(DilatePool, MaxRects)
    /\ dilateIn = myRect
    /\ dpc = "call"
    /\ IdleMatch /\ IdleFrame /\ IdleMain

DilateCall ==
    /\ dpc = "call"
    /\ myRect' = dilateRects(factor, myRect)
    /\ dpc' = "returned"
    /\ UNCHANGED <<factor, dilateIn, matchVars, frameVars, mainVars>>

NextDilate == DilateCall

SpecDilate == InitDilate /\ [][NextDilate]_vars

(***************************************************************************)
(* getBoundingBoxHSV (lines 392-410).  An image maps the pixel <<i, j>>,   *)
(* column i of row j, to its <<H, S, V>>; BOX[0..3] of the source is       *)
(* BOX[1..4] here and component a of a Vec3b is component a+1.             *)
(***************************************************************************)
\* the colours a pixel takes in the model
Palette == { <<3, 3, 3>>, <<7, 1, 9>> }
Pixels == (0..(FrameW - 1)) \X (0..(FrameH - 1))
Images == [Pixels -> Palette]

\* line 403, myImgHSV.at<Vec3b>(j, i): outside the image the read is
\* undefined, and yields whatever the memory there holds (wild)
PixelAt(img, j, i, wild) == IF <<i, j>> \in Pixels THEN img[<<i, j>>] ELSE wild

\* the range the scan starts from without the reset of lines 397-399
KeepRange(MINHSV, MAXHSV) == [min |-> MINHSV, max |-> MAXHSV]
\* lines 397-399
ResetRange(MINHSV, MAXHSV) ==
    [min |-> [a \in 1..3 |-> 255], max |-> [a \in 1..3 |-> 0]]

\* lines 404-407
WidenRange(acc, intensity) ==
    [min |-> [a \in 1..3 |-> IF intensity[a] < acc.min[a] THEN intensity[a]
                                                          ELSE acc.min[a]],
     max |-> [a \in 1..3 |-> IF intensity[a] > acc.max[a] THEN intensity[a]
                                                          ELSE acc.max[a]]]

\* lines 401-409: the two loops, from column i and row j on
RECURSIVE ScanBox(_, _, _, _, _, _)
ScanBox(img, BOX, i, j, wild, acc) ==
    IF i >= BOX[3] THEN acc
    ELSE IF j >= BOX[4] THEN ScanBox(img, BOX, i + 1, BOX[2], wild, acc)
    ELSE ScanBox(img, BOX, i, j + 1, wild, WidenRange(acc, PixelAt(img, j, i, wild)))

\* the whole call: the values it leaves in MINHSV and MAXHSV
getBoundingBoxHSV(img, BOX, MINHSV, MAXHSV, wild) ==
    ScanBox(img, BOX, BOX[1], BOX[2], wild, ResetRange(MINHSV, MAXHSV))

(***************************************************************************)
(* Specification SpecSample: the call of line 116 as a function of the     *)
(* image, the box, the channel and the thresholds held before.  The boxes  *)
(* lie inside the frame and may be degenerate or inverted.                 *)
(***************************************************************************)
\* the thresholds main declares (lines 91-92)
DefaultMin == [ch \in 0..2 |-> <<255, 255, 255>>]
DefaultMax == [ch \in 0..2 |-> <<0, 0, 0>>]
\* thresholds of an earlier calibration
SomeMin == [ch \in 0..2 |-> <<5 + ch, 0, 8>>]
SomeMax == [ch \in 0..2 |-> <<6 + ch, 200, 8>>]

InsideBoxes ==
    { <<x1, y1, x2, y2>> : x1 \in 0..FrameW, y1 \in 0..FrameH,
                           x2 \in 0..FrameW, y2 \in 0..FrameH }

InitSample ==
    /\ pc = "sample"
    /\ imgHSV \in Images
    /\ BBOX \in InsideBoxes
    /\ channelFlag \in 0..2
    /\ \/ HSVMINALL = DefaultMin /\ HSVMAXALL = DefaultMax
       \/ HSVMINALL = SomeMin /\ HSVMAXALL = SomeMax
    /\ frameEnd = <<HSVMINALL, HSVMAXALL>>
    /\ cfgFile = <<>> /\ trackModeFlag = 0 /\ charCheckForKey = 0
    /\ mouseDraggedFlag = 0 /\ saveCalls = <<>> /\ toggles = 0 /\ dragEnded = FALSE
    /\ loadRet = -1 /\ cfgKind = "missing" /\ prevRun = <<>> /\ frameCount = 0
    /\ IdleMatch /\ IdleFrame /\ IdleDilate

\* line 116
SampleCall ==
    /\ pc = "sample"
    /\ \E wild \in Palette :
          LET r == getBoundingBoxHSV(imgHSV, BBOX, HSVMINALL[channelFlag],
                                     HSVMAXALL[channelFlag], wild)
          IN  /\ HSVMINALL' = [HSVMINALL EXCEPT ![channelFlag] = r.min]
              /\ HSVMAXALL' = [HSVMAXALL EXCEPT ![channelFlag] = r.max]
    /\ pc' = "sampled"
    /\ UNCHANGED <<cfgFile, trackModeFlag, channelFlag, charCheckForKey,
                   mouseDraggedFlag, BBOX, imgHSV, saveCalls, frameEnd, toggles, dragEnded,
                   loadRet, cfgKind, prevRun, frameCount,
                   matchVars, frameVars, dilateVars>>

NextSample == SampleCall

SpecSample == InitSample /\ [][NextSample]_vars

(***************************************************************************)
(* The configuration file (lines 496-539).  A file is the sequence of its  *)
(* characters; fprintf and fscanf are modelled on the format string of     *)
(* lines 507 and 534, character by character.                              *)
(***************************************************************************)
\* the format string of lines 507 and 534
ConfigFormat ==
    <<"c", "h", "a", "n", "n", "e", "l", " ", "%", "d", ",", " ", "H", "S",
      "V", "M", "I", "N", "{", "%", "d", ",", "%", "d", ",", "%", "d", "}",
      ",", " ", "H", "S", "V", "M", "A", "X", "{", "%", "d", ",", "%", "d",
      ",", "%", "d", "}", "\n">>

DigitChars == <<"0", "1", "2", "3", "4", "5", "6", "7", "8", "9">>
IsDigit(c) == \E d \in 1..10 : DigitChars[d] = c
DigitValue(c) == (CHOOSE d \in 1..10 : DigitChars[d] = c) - 1
\* isspace
IsSpace(c) == c \in {" ", "\n", "\t", "\r"}

\* printf's %d for n >= 0
RECURSIVE PrintNat(_)
PrintNat(n) ==
    IF n < 10 THEN <<DigitChars[n + 1]>>
    ELSE Append(PrintNat(n \div 10), DigitChars[(n % 10) + 1])

\* printf's %d
PrintInt(n) == IF n < 0 THEN <<"-">> \o PrintNat(0 - n) ELSE PrintNat(n)

\* fprintf(fp, fmt, args...) from format position f on: the characters written
RECURSIVE Fprintf(_, _, _)
Fprintf(fmt, f, args) ==
    IF f > Len(fmt) THEN <<>>
    ELSE IF fmt[f] = "%" THEN PrintInt(Head(args)) \o Fprintf(fmt, f + 2, Tail(args))
    ELSE <<fmt[f]>> \o Fprintf(fmt, f + 1, args)

\* the first position from pos on that holds no white space
RECURSIVE SkipSpace(_, _)
SkipSpace(in, pos) ==
    IF pos <= Len(in) /\ IsSpace(in[pos]) THEN SkipSpace(in, pos + 1) ELSE pos

\* the first position from pos on that holds no digit
RECURSIVE SkipDigits(_, _)
SkipDigits(in, pos) ==
    IF pos <= Len(in) /\ IsDigit(in[pos]) THEN SkipDigits(in, pos + 1) ELSE pos

\* the number the digits in[from..to-1] write, after the digits read so far
RECURSIVE DigitsValue(_, _, _, _)
DigitsValue(in, from, to, sofar) ==
    IF from >= to THEN sofar
    ELSE DigitsValue(in, from + 1, to, sofar * 10 + DigitValue(in[from]))

\* fscanf(fp, fmt, ...) from format position f and stream position pos on:
\* the values converted, in order, and the stream position it stops at
RECURSIVE Fscanf(_, _, _, _, _)
Fscanf(fmt, f, in, pos, vals) ==
    IF f > Len(fmt) THEN [vals |-> vals, pos |-> pos]
    ELSE IF IsSpace(fmt[f]) THEN Fscanf(fmt, f + 1, in, SkipSpace(in, pos), vals)
    ELSE IF fmt[f] = "%" THEN
        LET p1 == SkipSpace(in, pos)
            signed == p1 <= Len(in) /\ in[p1] \in {"-", "+"}
            p2 == IF signed THEN p1 + 1 ELSE p1
            p3 == SkipDigits(in, p2)
            n == DigitsValue(in, p2, p3, 0)
        IN  IF p3 = p2 THEN [vals |-> vals, pos |-> p2]
            ELSE Fscanf(fmt, f + 2, in, p3,
                        Append(vals, IF signed /\ in[p1] = "-" THEN 0 - n ELSE n))
    ELSE IF pos <= Len(in) /\ in[pos] = fmt[f]
         THEN Fscanf(fmt, f + 1, in, pos + 1, vals)
         ELSE [vals |-> vals, pos |-> pos]

\* fopen found no file
NoFile == <<"no file">>

\* line 507: the targets &ch, &MIN[i][0..2], &MAX[i][0..2] take the values
\* converted, in order; a target without a value keeps what it held
Stored(old, vals, first) ==
    [a \in 1..3 |-> IF Len(vals) >= first + a THEN vals[first + a] ELSE old[a]]

\* lines 506-508: the loop from channel i on
RECURSIVE LoadFrom(_, _, _, _, _)
LoadFrom(in, i, pos, MIN, MAX) ==
    IF i >= 3 THEN [ret |-> 0, min |-> MIN, max |-> MAX]
    ELSE LET r == Fscanf(ConfigFormat, 1, in, pos, <<>>)
         IN  LoadFrom(in, i + 1, r.pos,
                      [MIN EXCEPT ![i] = Stored(@, r.vals, 1)],
                      [MAX EXCEPT ![i] = Stored(@, r.vals, 4)])

\* loadConfigFile(MIN, MAX, 3): its return value and what it leaves in MIN, MAX
loadConfigFile(file, MIN, MAX) ==
    IF file = NoFile THEN [ret |-> 1, min |-> MIN, max |-> MAX]
    ELSE LoadFrom(file, 0, 1, MIN, MAX)

\* line 534: the arguments of the fprintf for channel i, MAX before MIN
SaveArgsSwapped(i, MIN, MAX) == <<i>> \o MAX[i] \o MIN[i]
\* line 534: the arguments of the fprintf for channel i
SaveArgs(i, MIN, MAX) == <<i>> \o MIN[i] \o MAX[i]

\* lines 533-535: the loop from channel i on
RECURSIVE SaveFrom(_, _, _)
SaveFrom(i, MIN, MAX) ==
    IF i >= 3 THEN <<>>
    ELSE Fprintf(ConfigFormat, 1, SaveArgs(i, MIN, MAX)) \o SaveFrom(i + 1, MIN, MAX)

\* saveConfigFile(MIN, MAX, 3): its return value and the file it leaves;
\* opened says whether fopen(.., "w") succeeded
saveConfigFile(file, MIN, MAX, opened) ==
    IF ~opened THEN [ret |-> 1, file |-> file]
    ELSE [ret |-> 0, file |-> SaveFrom(0, MIN, MAX)]

(***************************************************************************)
(* main (lines 81-143) and the callback onMouse (lines 324-353).           *)
(*                                                                         *)
(* HighGUI calls onMouse from inside waitKey, so mouse events are steps    *)
(* taken while main is at line 139.  The return of waitKey and the next    *)
(* iteration up to its own waitKey call are one step: nothing else runs in *)
(* between.  Only the first iteration starts from the loop condition.      *)
(* cvtColor, the drawing calls, imshow and the printf of the statistics    *)
(* produce output only and are left out; the camera delivers the frame     *)
(* already in HSV.  frameCount is capped at MaxFrames.                     *)
(***************************************************************************)
others == <<matchVars, frameVars, dilateVars>>

\* what waitKey(1) returns, as a char: no key, '1', '2', '3', 'a', Esc
Keys == {-1, 49, 50, 51, 97, 27}

\* where the mouse is when an event is delivered
MousePoints == { <<0, 0>>, <<FrameW, FrameH>> }

\* what the camera delivers: a frame of one colour, or one with a pixel of
\* another colour in its corner
CameraFrames ==
    { [p \in Pixels |-> c] : c \in Palette }
        \cup { [p \in Pixels |-> IF p = <<0, 0>> THEN <<3, 3, 3>> ELSE <<7, 1, 9>>] }

\* getChannelFlag (lines 363-375)
getChannelFlag(charKey) ==
    IF charKey = 49 THEN 0
    ELSE IF charKey = 50 THEN 1
    ELSE IF charKey = 51 THEN 2
    ELSE 99

\* lines 104-106 without the test for 99
SelectedChannelUnchecked(key, channel) == getChannelFlag(key)
\* lines 104-106 without the assignment
SelectedChannelIgnored(key, channel) == channel
\* lines 104-106: the channel after the key was looked at
SelectedChannel(key, channel) ==
    IF getChannelFlag(key) # 99 THEN getChannelFlag(key) ELSE channel

\* lines 346-351 without the way back to tracking
ToggledOnce(flag) == IF flag = 1 THEN 0 ELSE flag
\* lines 346-351
Toggled(flag) == IF flag = 1 THEN 0 ELSE IF flag = 0 THEN 1 ELSE flag

\* lines 326-333
MouseLButtonDown ==
    /\ pc = "waitKey"
    /\ \E p \in MousePoints :
          /\ mouseDraggedFlag' = 1
          /\ BBOX' = <<p[1], p[2], p[1], p[2]>>
    /\ UNCHANGED <<pc, cfgFile, HSVMINALL, HSVMAXALL, trackModeFlag, channelFlag,
                   charCheckForKey, imgHSV, frameCount, saveCalls, frameEnd,
                   loadRet, cfgKind, prevRun, toggles, dragEnded, others>>

\* lines 334-340
MouseMove ==
    /\ pc = "waitKey"
    /\ \E p \in MousePoints :
          IF mouseDraggedFlag = 1
          THEN BBOX' = [BBOX EXCEPT ![3] = p[1], ![4] = p[2]]
          ELSE BBOX' = BBOX
    /\ UNCHANGED <<pc, cfgFile, HSVMINALL, HSVMAXALL, trackModeFlag, channelFlag,
                   charCheckForKey, mouseDraggedFlag, imgHSV, frameCount, saveCalls,
                   frameEnd, loadRet, cfgKind, prevRun, toggles, dragEnded, others>>

\* lines 341-343
MouseLButtonUp ==
    /\ pc = "waitKey"
    /\ mouseDraggedFlag' = 0
    /\ dragEnded' = TRUE
    /\ UNCHANGED <<pc, cfgFile, HSVMINALL, HSVMAXALL, trackModeFlag, channelFlag,
                   charCheckForKey, BBOX, imgHSV, frameCount, saveCalls, frameEnd,
                   loadRet, cfgKind, prevRun, toggles, others>>

\* lines 344-352
MouseRButtonUp ==
    /\ pc = "waitKey"
    /\ toggles < MaxToggles
    /\ trackModeFlag' = Toggled(trackModeFlag)
    /\ toggles' = toggles + 1
    /\ UNCHANGED <<pc, cfgFile, HSVMINALL, HSVMAXALL, channelFlag, charCheckForKey,
                   mouseDraggedFlag, BBOX, imgHSV, frameCount, saveCalls, frameEnd,
                   loadRet, cfgKind, prevRun, dragEnded, others>>

\* any other event (right button down, double click, ...): no branch is taken
MouseOtherEvent ==
    /\ pc = "waitKey"
    /\ UNCHANGED <<mainVars, others>>

\* lines 83-87: the camera cannot be opened
MainNoCamera ==
    /\ pc = "start"
    /\ pc' = "noCamera"
    /\ UNCHANGED <<cfgFile, HSVMINALL, HSVMAXALL, trackModeFlag, channelFlag,
                   charCheckForKey, mouseDraggedFlag, BBOX, imgHSV, frameCount,
                   saveCalls, frameEnd, loadRet, cfgKind, prevRun, toggles, dragEnded, others>>

\* lines 83-101: the camera is open, the thresholds are declared and loaded
MainStartup ==
    /\ pc = "start"
    /\ \E r \in {loadConfigFile(cfgFile, DefaultMin, DefaultMax)} :
           /\ HSVMINALL' = r.min
           /\ HSVMAXALL' = r.max
           /\ loadRet' = r.ret
           /\ frameEnd' = <<r.min, r.max>>
    /\ pc' = "loop"
    /\ UNCHANGED <<cfgFile, trackModeFlag, channelFlag, charCheckForKey,
                   mouseDraggedFlag, BBOX, imgHSV, frameCount, saveCalls, cfgKind,
                   prevRun, toggles, dragEnded, others>>

\* line 116 with the whole arrays handed over
AllRows(T, ch, row) == [c \in DOMAIN T |-> row]
\* line 116: HSVMINALL[channelFlag] hands the callee the row of that channel,
\* and what the callee writes lands there
PassedRow(T, ch, row) == [T EXCEPT ![ch] = row]

\* lines 104-138 for the key held in charCheckForKey' and a frame that was read
FrameBody(img) ==
    /\ frameCount < MaxFrames
    /\ channelFlag' = SelectedChannel(charCheckForKey', channelFlag)
    /\ imgHSV' = img
    /\ IF trackModeFlag = 0
       THEN \E wild \in Palette :
              LET r == getBoundingBoxHSV(img, BBOX, HSVMINALL[channelFlag'],
                                         HSVMAXALL[channelFlag'], wild)
              IN  /\ HSVMINALL' = PassedRow(HSVMINALL, channelFlag', r.min)
                  /\ HSVMAXALL' = PassedRow(HSVMAXALL, channelFlag', r.max)
       ELSE \* detectCCBlobs reads the thresholds and changes its locals only
            UNCHANGED <<HSVMINALL, HSVMAXALL>>
    /\ frameEnd' = <<HSVMINALL', HSVMAXALL'>>
    /\ frameCount' = frameCount + 1
    /\ dragEnded' = IF trackModeFlag = 0 THEN FALSE ELSE dragEnded
    /\ pc' = "waitKey"
    /\ UNCHANGED <<cfgFile, trackModeFlag, mouseDraggedFlag, BBOX, saveCalls,
                   loadRet, cfgKind, prevRun, toggles, others>>

\* the loop is left and line 141 runs; the file may fail to open for writing
LeaveLoop ==
    /\ \E opened \in BOOLEAN :
          \E r \in {saveConfigFile(cfgFile, HSVMINALL, HSVMAXALL, opened)} :
              /\ cfgFile' = r.file
              /\ cfgKind' = IF r.ret = 0 THEN "valid" ELSE cfgKind
              /\ saveCalls' = Append(saveCalls, [min |-> HSVMINALL, max |-> HSVMAXALL,
                                                 ret |-> r.ret])
    /\ pc' = "exited"
    /\ UNCHANGED <<HSVMINALL, HSVMAXALL, trackModeFlag, mouseDraggedFlag, BBOX,
                   imgHSV, frameCount, frameEnd, loadRet, prevRun, toggles, dragEnded, others>>

\* the loop is left without line 141
LeaveLoopUnsaved ==
    /\ pc' = "exited"
    /\ UNCHANGED <<cfgFile, cfgKind, saveCalls, HSVMINALL, HSVMAXALL, trackModeFlag,
                   mouseDraggedFlag, BBOX, imgHSV, frameCount, frameEnd, loadRet,
                   prevRun, toggles, dragEnded, others>>

\* lines 104-111 with a return in the place of the break
ReadFailedUnsaved ==
    /\ charCheckForKey' # 27
    /\ channelFlag' = SelectedChannel(charCheckForKey', channelFlag)
    /\ LeaveLoopUnsaved
\* lines 104-111: the key is looked at, the read of the frame fails, break.
\* (Nothing releases capWebcam, so isOpened() of line 103 stays true.)
ReadFailed ==
    /\ charCheckForKey' # 27
    /\ channelFlag' = SelectedChannel(charCheckForKey', channelFlag)
    /\ LeaveLoop

\* the first iteration, with a frame
MainFirstFrame ==
    /\ pc = "loop"
    /\ charCheckForKey' = charCheckForKey
    /\ charCheckForKey # 27
    /\ \E img \in CameraFrames : FrameBody(img)

\* the first iteration, without one
MainFirstFrameFailed ==
    /\ pc = "loop"
    /\ charCheckForKey' = charCheckForKey
    /\ ReadFailed

\* waitKey returns a key other than Esc and the next frame is processed
MainNextFrame ==
    /\ pc = "waitKey"
    /\ \E k \in Keys \ {27} :
          /\ charCheckForKey' = k
          /\ \E img \in CameraFrames : FrameBody(img)

\* waitKey returns a key other than Esc and no frame is obtained
MainNextFrameFailed ==
    /\ pc = "waitKey"
    /\ \E k \in Keys \ {27} :
          /\ charCheckForKey' = k
          /\ ReadFailed

\* waitKey returns Esc: the loop condition of line 103 fails
MainEsc ==
    /\ pc = "waitKey"
    /\ charCheckForKey' = 27
    /\ channelFlag' = channelFlag
    /\ LeaveLoop

\* the program is run again: the globals are initialized anew (lines 57-62),
\* the file is what the run before left; prevRun keeps the last call of
\* saveConfigFile of the runs before
ProcessRestart ==
    /\ pc \in {"exited", "noCamera"}
    /\ pc' = "start"
    /\ HSVMINALL' = <<>> /\ HSVMAXALL' = <<>>
    /\ trackModeFlag' = 1 /\ channelFlag' = 0 /\ charCheckForKey' = 0
    /\ mouseDraggedFlag' = 0 /\ BBOX' = <<0, 0, 1, 1>> /\ imgHSV' = <<>>
    /\ frameCount' = 0 /\ frameEnd' = <<>> /\ loadRet' = -1 /\ toggles' = 0
    /\ dragEnded' = FALSE
    /\ saveCalls' = <<>>
    /\ prevRun' = IF saveCalls = <<>> THEN prevRun ELSE <<saveCalls[Len(saveCalls)]>>
    /\ UNCHANGED <<cfgFile, cfgKind, others>>

\* the state a run of the program starts in, for the files it may find
InitProcess(files) ==
    /\ pc = "start"
    /\ \E f \in files : cfgFile = f[1] /\ cfgKind = f[2]
    /\ HSVMINALL = <<>> /\ HSVMAXALL = <<>>
    /\ trackModeFlag = 1 /\ channelFlag = 0 /\ charCheckForKey = 0
    /\ mouseDraggedFlag = 0 /\ BBOX = <<0, 0, 1, 1>> /\ imgHSV = <<>>
    /\ frameCount = 0 /\ frameEnd = <<>> /\ loadRet = -1 /\ toggles = 0
    /\ dragEnded = FALSE
    /\ saveCalls = <<>> /\ prevRun = <<>>
    /\ IdleMatch /\ IdleFrame /\ IdleDilate

(***************************************************************************)
(* Specification SpecMain: one run of the program, started without a       *)
(* configuration file or with one an earlier run wrote.                    *)
(***************************************************************************)
\* thresholds of an earlier calibration, with numbers of 1, 2 and 3 digits
StoredMin == [ch \in 0..2 |-> IF ch = 0 THEN <<0, 50, 100>>
                              ELSE IF ch = 1 THEN <<10, 20, 30>> ELSE <<255, 255, 255>>]
StoredMax == [ch \in 0..2 |-> IF ch = 0 THEN <<9, 99, 255>>
                              ELSE IF ch = 1 THEN <<40, 50, 60>> ELSE <<0, 0, 0>>]
StoredFile == SaveFrom(0, StoredMin, StoredMax)

InitMain == InitProcess({ <<NoFile, "missing">>, <<StoredFile, "valid">> })

NextMain ==
    \/ MainNoCamera
    \/ MainStartup
    \/ MainFirstFrame
    \/ MainFirstFrameFailed
    \/ MainNextFrame
    \/ MainNextFrameFailed
    \/ MainEsc
    \/ MouseLButtonDown
    \/ MouseMove
    \/ MouseLButtonUp
    \/ MouseRButtonUp
    \/ MouseOtherEvent

SpecMain == InitMain /\ [][NextMain]_vars

(***************************************************************************)
(* Specification SpecConfig: runs of the program one after the other, over *)
(* the file the run before left, with a camera that opens or not and       *)
(* delivers no frame.  The first run finds no file, a file a run wrote, or *)
(* such a file damaged: cut short, or with one character overwritten.      *)
(* Damage in the last two characters, behind the last number, is left out: *)
(* fscanf has converted every number by then.                              *)
(***************************************************************************)
DefaultFile == SaveFrom(0, DefaultMin, DefaultMax)

Truncated(file) == { SubSeq(file, 1, k) : k \in 0..(Len(file) - 3) }
Garbled(file) == { [file EXCEPT ![k] = "#"] : k \in 1..(Len(file) - 2) }

WrittenFiles == { StoredFile, DefaultFile }
DamagedFiles == Truncated(StoredFile) \cup Garbled(StoredFile)

InitConfig ==
    InitProcess({ <<NoFile, "missing">> }
                    \cup { <<f, "valid">> : f \in WrittenFiles }
                    \cup { <<f, "corrupt">> : f \in DamagedFiles })

NextConfig ==
    \/ MainNoCamera
    \/ MainStartup
    \/ MainFirstFrameFailed
    \/ ProcessRestart

SpecConfig == InitConfig /\ [][NextConfig]_vars

(***************************************************************************)
(* Geometry the claims are stated with, independent of the code's Rect     *)
(* operators: rectangles as half-open pixel ranges.                        *)
(***************************************************************************)
Right(r) == r.x + r.width
Bottom(r) == r.y + r.height

\* the two rectangles share a region of positive area
PositiveOverlap(a, b) ==
    /\ a.x < Right(b) /\ b.x < Right(a)
    /\ a.y < Bottom(b) /\ b.y < Bottom(a)

\* r is the smallest rectangle enclosing a and b
SmallestEnclosing(r, a, b) ==
    /\ r.x = Min2(a.x, b.x) /\ r.y = Min2(a.y, b.y)
    /\ Right(r) = Max2(Right(a), Right(b))
    /\ Bottom(r) = Max2(Bottom(a), Bottom(b))

EnclosingArea(a, b) ==
    (Max2(Right(a), Right(b)) - Min2(a.x, b.x))
        * (Max2(Bottom(a), Bottom(b)) - Min2(a.y, b.y))

AllClear(u) == \A i \in DOMAIN u : u[i] = 0

\* the pairs of still-unused, overlapping regions when the call was made
Candidates ==
    { p \in (DOMAIN rectsChA) \X (DOMAIN rectsChB) :
        /\ matchPre.usedA[p[1]] = 0 /\ matchPre.usedB[p[2]] = 0
        /\ PositiveOverlap(rectsChA[p[1]], rectsChB[p[2]]) }

Returned == matchRet \in {0, 1}

(***************************************************************************)
(* C1.  Overlap correctness of getCCRectBinary: with all usage markers     *)
(* clear the call returns 0 iff some pair (A[i], B[j]) has an intersection *)
(* of positive area, and the pair it commits is such a pair, so disjoint   *)
(* or merely touching regions are never paired.  (0,0,10,10) with          *)
(* (5,5,10,10) is matched with composite (0,0,15,15); (0,0,10,10) with     *)
(* (20,20,5,5) is not matched.                                             *)
(***************************************************************************)
C1_OverlapCorrectness ==
    (Returned /\ AllClear(matchPre.usedA) /\ AllClear(matchPre.usedB)) =>
        /\ (matchRet = 0) <=>
              (\E i \in DOMAIN rectsChA, j \in DOMAIN rectsChB :
                  PositiveOverlap(rectsChA[i], rectsChB[j]))
        /\ (matchRet = 0) =>
              PositiveOverlap(rectsChA[target[1]], rectsChB[target[2]])
        /\ (rectsChA = <<Rect(0, 0, 10, 10)>> /\ rectsChB = <<Rect(5, 5, 10, 10)>>)
              => (matchRet = 0 /\ ccRects[code] = Rect(0, 0, 15, 15))
        /\ (rectsChA = <<Rect(0, 0, 10, 10)>> /\ rectsChB = <<Rect(20, 20, 5, 5)>>)
              => (matchRet = 1)

\* a call with clear markers that found the overlapping pair among touching ones
C1_Witness ==
    /\ matchRet = 0
    /\ AllClear(matchPre.usedA) /\ AllClear(matchPre.usedB)
    /\ rectsChA = <<Rect(15, 10, 5, 10), Rect(0, 0, 10, 10)>>
    /\ rectsChB = <<Rect(20, 20, 5, 5), Rect(5, 5, 10, 10)>>
    /\ target = <<2, 2>>
    /\ ccRects[code] = Rect(0, 0, 15, 15)

(***************************************************************************)
(* C2.  Best-of-many selection: when an overlapping pair of still-unused   *)
(* regions exists the call commits a pair (i, j) of that kind whose        *)
(* enclosing rectangle has the largest area among all such pairs;          *)
(* ccRects[code] is that enclosing rectangle, usedA[i] and usedB[j] become *)
(* 1 and every other usage marker keeps its value.  A={(0,0,10,10)},       *)
(* B={(5,5,4,4),(5,5,20,20)} selects B[1] and leaves B[0] unused.          *)
(***************************************************************************)
C2_BestOfMany ==
    (Returned /\ Candidates # {}) =>
        /\ matchRet = 0
        /\ target \in Candidates
        /\ \A p \in Candidates :
              EnclosingArea(rectsChA[p[1]], rectsChB[p[2]])
                 <= EnclosingArea(rectsChA[target[1]], rectsChB[target[2]])
        /\ SmallestEnclosing(ccRects[code], rectsChA[target[1]], rectsChB[target[2]])
        /\ usedA = [matchPre.usedA EXCEPT ![target[1]] = 1]
        /\ usedB = [matchPre.usedB EXCEPT ![target[2]] = 1]
        /\ (/\ rectsChA = <<Rect(0, 0, 10, 10)>>
            /\ rectsChB = <<Rect(5, 5, 4, 4), Rect(5, 5, 20, 20)>>
            /\ AllClear(matchPre.usedA) /\ AllClear(matchPre.usedB))
              => (target = <<1, 2>> /\ usedA = <<1>> /\ usedB = <<0, 1>>)

\* the spec's example, committed
C2_Witness ==
    /\ matchRet = 0
    /\ rectsChA = <<Rect(0, 0, 10, 10)>>
    /\ rectsChB = <<Rect(5, 5, 4, 4), Rect(5, 5, 20, 20)>>
    /\ Cardinality(Candidates) = 2
    /\ target = <<1, 2>>
    /\ usedB = <<0, 1>>
    /\ ccRects[code] = Rect(0, 0, 25, 25)

(***************************************************************************)
(* C3.  Usage exclusivity across the three passes of one frame:            *)
(* detectCCBlobs runs the passes {ch1,ch2}, {ch1,ch3}, {ch2,ch3} in that   *)
(* order over shared markers; a pass only selects regions whose markers    *)
(* were clear when it started, a marker once set stays set, and so every   *)
(* region is part of at most one composite of the frame.                   *)
(***************************************************************************)
\* the successful passes that selected region i of channel ch
PassesUsing(ch, i) ==
    { k \in DOMAIN passLog :
        /\ passLog[k].ret = 0
        /\ \E side \in 1..2 :
              /\ PassChannels(passLog[k].code)[side] = ch
              /\ passLog[k].target[side] = i }

C3_UsageExclusivity ==
    /\ \A k \in DOMAIN passLog :
          /\ passLog[k].code = k - 1
          /\ PassChannels(k - 1) = <<<<1, 2>>, <<1, 3>>, <<2, 3>>>>[k]
          /\ passLog[k].ret = 0 =>
                \A side \in 1..2 :
                    passLog[k].usedBefore[PassChannels(k - 1)[side]]
                                         [passLog[k].target[side]] = 0
          /\ \A ch \in 1..3 : \A i \in DOMAIN passLog[k].usedBefore[ch] :
                passLog[k].usedBefore[ch][i] = 1 => usedRectsCh[ch][i] = 1
    /\ \A ch \in 1..3 : \A i \in DOMAIN myFilteredRects[ch] :
          Cardinality(PassesUsing(ch, i)) <= 1

\* the channel-1 region consumed by pass {1,2} overlaps a channel-3 region,
\* and pass {1,3} finds nothing
C3_Witness ==
    /\ fpc = "done"
    /\ Len(myFilteredRects[1]) = 1 /\ Len(myFilteredRects[3]) = 1
    /\ PositiveOverlap(myFilteredRects[1][1], myFilteredRects[3][1])
    /\ passLog[1].ret = 0 /\ passLog[1].target[1] = 1
    /\ passLog[2].ret = 1
    /\ passLog[3].ret = 1

(***************************************************************************)
(* C6.  Expansion keeps the center and does not shrink.  As claimed: for   *)
(* every region with w,h >= 0 and every f >= 0 the dilated region's center *)
(* is within 1 of the original center in each axis, its area is >= the     *)
(* original area, and the areas are equal only when f = 0.                 *)
(***************************************************************************)
\* twice the center coordinates, to stay in the integers
Center2X(r) == 2 * r.x + r.width
Center2Y(r) == 2 * r.y + r.height
Within(a, b, d) == a - b <= d /\ b - a <= d

CenterKept(i) ==
    /\ Within(Center2X(myRect[i]), Center2X(dilateIn[i]), 2)
    /\ Within(Center2Y(myRect[i]), Center2Y(dilateIn[i]), 2)

C6_Original ==
    dpc = "returned" =>
        \A i \in DOMAIN dilateIn :
            /\ CenterKept(i)
            /\ Area(myRect[i]) >= Area(dilateIn[i])
            /\ Area(myRect[i]) = Area(dilateIn[i]) => factor = 0

(***************************************************************************)
(* C6, amended.  The center is within 1 of the original in each axis and   *)
(* the area is >= the original area; the areas are equal exactly when the  *)
(* region has zero area or both growths truncate to zero (w*f < 100 and    *)
(* h*f < 100), which f = 0 is one case of.                                 *)
(***************************************************************************)
C6_CenterAndArea ==
    dpc = "returned" =>
        /\ Len(myRect) = Len(dilateIn)
        /\ \A i \in DOMAIN dilateIn :
            /\ CenterKept(i)
            /\ Area(myRect[i]) >= Area(dilateIn[i])
            /\ (Area(myRect[i]) = Area(dilateIn[i])) <=>
                  \/ dilateIn[i].width = 0
                  \/ dilateIn[i].height = 0
                  \/ /\ dilateIn[i].width * factor < 100
                     /\ dilateIn[i].height * factor < 100
            /\ factor = 0 => myRect[i] = dilateIn[i]

\* 35 per cent grows a 10x10 region around its center and leaves a 2x2 one as it is
C6_Witness ==
    /\ dpc = "returned"
    /\ factor = 35
    /\ dilateIn = <<Rect(0, 0, 10, 10), Rect(7, 3, 2, 2)>>
    /\ myRect = <<Rect(-1, -1, 13, 13), Rect(7, 3, 2, 2)>>

(***************************************************************************)
(* C7.  Area filter: getThresholdRects outputs exactly the bounding boxes  *)
(* whose area is strictly greater than MINAREABLOB = 64, in the order      *)
(* found; it never outputs a region of area <= 64, and a mask whose only   *)
(* component is a 5x5 blob yields the empty set.                           *)
(***************************************************************************)
IsBigBlob(r) == r.width * r.height > 64

C7_AreaFilter ==
    fpc = "dilate" =>
        \A ch \in 1..3 :
            /\ myFilteredRects[ch] = SelectSeq(boundRect[ch], IsBigBlob)
            /\ \A i \in DOMAIN myFilteredRects[ch] :
                  ~(myFilteredRects[ch][i].width * myFilteredRects[ch][i].height <= 64)
            /\ (Len(boundRect[ch]) = 1 /\ boundRect[ch][1].width = 5
                  /\ boundRect[ch][1].height = 5) => myFilteredRects[ch] = <<>>

\* a mask with only a 5x5 blob, and one with blobs of area 64 and 65
C7_Witness ==
    /\ fpc = "dilate"
    /\ boundRect[1] = <<Rect(40, 40, 5, 5)>>
    /\ myFilteredRects[1] = <<>>
    /\ boundRect[2] = <<Rect(0, 30, 8, 8), Rect(30, 0, 5, 13)>>
    /\ myFilteredRects[2] = <<Rect(30, 0, 5, 13)>>

(***************************************************************************)
(* C8.  Calibration range correctness: for a non-degenerate box inside the *)
(* frame getBoundingBoxHSV leaves in MIN and MAX of the active channel,    *)
(* for each of the 3 components, the smallest and the largest value of     *)
(* that component over the pixels of the sampled area, whatever the        *)
(* thresholds were before; a uniform area gives MIN = MAX = its colour and *)
(* an area holding exactly (3,3,3) and (7,1,9) gives MIN=(3,1,3),          *)
(* MAX=(7,3,9).                                                            *)
(***************************************************************************)
\* the pixels of the sampled area, column range x1..x2-1 and row range y1..y2-1
Sampled == { p \in Pixels : /\ BBOX[1] <= p[1] /\ p[1] < BBOX[3]
                            /\ BBOX[2] <= p[2] /\ p[2] < BBOX[4] }
SampledColours == { imgHSV[p] : p \in Sampled }
BoxProper == BBOX[1] < BBOX[3] /\ BBOX[2] < BBOX[4]
IsLeast(v, S) == v \in S /\ \A w \in S : v <= w
IsGreatest(v, S) == v \in S /\ \A w \in S : v >= w

C8_RangeCorrect ==
    (pc = "sampled" /\ BoxProper) =>
        /\ \A a \in 1..3 :
              /\ IsLeast(HSVMINALL[channelFlag][a], { c[a] : c \in SampledColours })
              /\ IsGreatest(HSVMAXALL[channelFlag][a], { c[a] : c \in SampledColours })
        /\ \A c \in Palette : SampledColours = {c} =>
              (HSVMINALL[channelFlag] = c /\ HSVMAXALL[channelFlag] = c)
        /\ SampledColours = { <<3, 3, 3>>, <<7, 1, 9>> } =>
              /\ HSVMINALL[channelFlag] = <<3, 1, 3>>
              /\ HSVMAXALL[channelFlag] = <<7, 3, 9>>

\* a sample over both colours, taken while the channel held other thresholds
C8_Witness ==
    /\ pc = "sampled"
    /\ BoxProper
    /\ SampledColours = { <<3, 3, 3>>, <<7, 1, 9>> }
    /\ frameEnd[1][channelFlag] = <<5 + channelFlag, 0, 8>>
    /\ HSVMINALL[channelFlag] = <<3, 1, 3>>
    /\ HSVMAXALL[channelFlag] = <<7, 3, 9>>


(***************************************************************************)
(* C4.  Mode state machine.  The program starts in Tracking               *)
(* (trackModeFlag = 1) with channel 0 active.  At every moment the mode is *)
(* Tracking exactly when the number of right-button-up events delivered so *)
(* far is even.  A step that changes the mode is the delivery of a         *)
(* right-button-up event, so keys, the other mouse events and frames leave *)
(* the mode alone; and the delivery of a right-button-up event leaves the  *)
(* active channel alone.                                                   *)
(***************************************************************************)
C4_ModeStateMachine ==
    /\ (trackModeFlag = 1 /\ channelFlag = 0 /\ toggles = 0)
    /\ [](trackModeFlag \in {0, 1} /\ (trackModeFlag = 1 <=> toggles % 2 = 0))
    /\ [][trackModeFlag' # trackModeFlag => toggles' = toggles + 1]_vars
    /\ [][toggles' # toggles => channelFlag' = channelFlag /\ pc' = pc]_vars

\* back in Tracking after two toggles, with a channel selected by key and
\* frames processed in between
C4_Witness ==
    /\ pc = "waitKey"
    /\ toggles = 2 /\ trackModeFlag = 1
    /\ channelFlag = 2 /\ frameCount = 2

(***************************************************************************)
(* C5.  Thresholds are flushed on shutdown.  While main is before or in    *)
(* the frame loop saveConfigFile has not been called.  Once the loop is    *)
(* left, by Esc or by a frame that could not be read, saveConfigFile has   *)
(* been called exactly once, with the thresholds of all three channels as  *)
(* they stood at the end of the last completed frame (as loaded, when no   *)
(* frame was completed), and a file it could open holds exactly the text   *)
(* of those thresholds.  A step that calls saveConfigFile is the step that *)
(* leaves the loop.                                                        *)
(***************************************************************************)
C5_FlushOnShutdown ==
    /\ [](pc \in {"start", "loop", "waitKey"} => saveCalls = <<>>)
    /\ [](pc = "exited" =>
            /\ Len(saveCalls) = 1
            /\ saveCalls[1].min = frameEnd[1]
            /\ saveCalls[1].max = frameEnd[2]
            /\ saveCalls[1].ret = 0 => cfgFile = SaveFrom(0, frameEnd[1], frameEnd[2]))
    /\ [][saveCalls' # saveCalls => pc \in {"loop", "waitKey"} /\ pc' = "exited"]_vars

\* Esc after a calibrating frame: thresholds that are neither the defaults
\* nor the loaded ones are written
C5_Witness ==
    /\ pc = "exited" /\ charCheckForKey = 27
    /\ Len(saveCalls) = 1 /\ saveCalls[1].ret = 0
    /\ saveCalls[1].min \notin {DefaultMin, StoredMin}
    /\ cfgFile = SaveFrom(0, HSVMINALL, HSVMAXALL)

(***************************************************************************)
(* C9.  Configuration load failure falls back to defaults.  When the       *)
(* program has entered the frame loop after starting with a missing or a   *)
(* corrupt configuration file, all three channels hold MIN = {255,255,255} *)
(* and MAX = {0,0,0}.                                                      *)
(***************************************************************************)
C9_LoadFailureDefaults ==
    (pc = "loop" /\ cfgKind \in {"missing", "corrupt"})
        => (HSVMINALL = DefaultMin /\ HSVMAXALL = DefaultMax)

\* the part of C9 the code keeps: without a file the defaults stand, and
\* loadConfigFile reports the failure
C9_MissingFileDefaults ==
    (pc = "loop" /\ cfgKind = "missing")
        => (HSVMINALL = DefaultMin /\ HSVMAXALL = DefaultMax /\ loadRet = 1)

\* a damaged file leaves a channel with a MIN from the file and a MAX of
\* which only the first number is from the file, and is reported as read
C9_PartialLoad ==
    /\ pc = "loop" /\ cfgKind = "corrupt" /\ loadRet = 0
    /\ HSVMINALL[1] = StoredMin[1]
    /\ HSVMAXALL[1] = <<StoredMax[1][1], 0, 0>>
    /\ HSVMINALL[2] = DefaultMin[2]

(***************************************************************************)
(* C10.  Threshold persistence round trip.  When a run of the program has  *)
(* saved its thresholds (saveConfigFile opened the file and returned 0)    *)
(* and the next run has loaded the file, the next run holds exactly the    *)
(* MIN and MAX vectors the run before saved, channel by channel, and       *)
(* loadConfigFile returned 0.  Every threshold saved has its components in *)
(* 0..255.                                                                 *)
(***************************************************************************)
InByteRange(T) == \A ch \in 0..2 : \A a \in 1..3 : T[ch][a] \in 0..255

C10_RoundTrip ==
    (pc = "loop" /\ prevRun # <<>> /\ prevRun[1].ret = 0)
        => /\ InByteRange(prevRun[1].min) /\ InByteRange(prevRun[1].max)
           /\ loadRet = 0
           /\ HSVMINALL = prevRun[1].min
           /\ HSVMAXALL = prevRun[1].max

\* thresholds with numbers of one, two and three digits, different from
\* channel to channel and between MIN and MAX, came back
C10_Witness ==
    /\ pc = "loop" /\ prevRun # <<>> /\ prevRun[1].ret = 0
    /\ prevRun[1].min = StoredMin /\ prevRun[1].max = StoredMax
    /\ HSVMINALL = StoredMin /\ HSVMAXALL = StoredMax

(***************************************************************************)
(* C11.  Calibration samples only completed drags.  A frame processed in   *)
(* Calibrating (trackModeFlag = 0) when no left-button-up event has been   *)
(* delivered since the last calibrating frame leaves the thresholds of     *)
(* every channel as they were: the active channel's threshold is           *)
(* recomputed only in a frame that follows a drag-end event.               *)
(***************************************************************************)
FrameStep == frameCount' = frameCount + 1

C11_SamplesOnlyCompletedDrags ==
    [][(FrameStep /\ trackModeFlag = 0 /\ ~dragEnded)
          => (HSVMINALL' = HSVMINALL /\ HSVMAXALL' = HSVMAXALL)]_vars

\* a calibrating frame has replaced the threshold of channel 0 by the colour
\* of the pixel under the initial box, with no left button event delivered
C11_SampledWithoutDrag ==
    /\ pc = "waitKey" /\ trackModeFlag = 0 /\ toggles = 1
    /\ ~dragEnded /\ mouseDraggedFlag = 0 /\ BBOX = <<0, 0, 1, 1>>
    /\ cfgKind = "missing"
    /\ HSVMINALL[0] = imgHSV[<<0, 0>>] /\ HSVMAXALL[0] = imgHSV[<<0, 0>>]

(***************************************************************************)
(* C12.  Channel selection.  A step changes the active channel only when   *)
(* it reads one of the keys '1', '2', '3'.  Every step that reads a key    *)
(* and starts an iteration of the loop, in Tracking as in Calibrating,     *)
(* leaves the channel at 0, 1, 2 for '1', '2', '3' and as it was for any   *)
(* other key or no key; and the frame processed in that iteration, when    *)
(* calibrating, puts its sample into the threshold of that channel.        *)
(***************************************************************************)
SelectKeys == {49, 50, 51}

\* a step that runs lines 104-106: an iteration with or without a frame
IterationStep == FrameStep \/ (pc' = "exited" /\ charCheckForKey' # 27)

C12_ChannelSelection ==
    /\ [][channelFlag' # channelFlag => charCheckForKey' \in SelectKeys]_vars
    /\ [][IterationStep =>
            channelFlag' = IF charCheckForKey' \in SelectKeys
                           THEN charCheckForKey' - 49 ELSE channelFlag]_vars
    /\ [][(FrameStep /\ trackModeFlag = 0) =>
            \E wild \in Palette :
               LET r == getBoundingBoxHSV(imgHSV', BBOX, HSVMINALL[channelFlag'],
                                          HSVMAXALL[channelFlag'], wild)
               IN  HSVMINALL'[channelFlag'] = r.min /\ HSVMAXALL'[channelFlag'] = r.max]_vars

\* key '2' read in Calibrating: the frame that followed sampled channel 1
\* and left channel 0, the channel active until then, at its defaults
C12_Witness ==
    /\ pc = "waitKey" /\ trackModeFlag = 0 /\ cfgKind = "missing"
    /\ charCheckForKey = 50 /\ channelFlag = 1 /\ frameCount = 2
    /\ HSVMINALL[1] = imgHSV[<<0, 0>>]
    /\ HSVMINALL[0] = DefaultMin[0] /\ HSVMAXALL[0] = DefaultMax[0]

(***************************************************************************)
(* C13.  Pairing is order-independent in outcome.  For every permutation   *)
(* of the regions of A and every permutation of the regions of B, with the *)
(* usage markers permuted alike, the call on the permuted lists returns    *)
(* the same found / not-found result, writes the same composite rectangle  *)
(* and marks the same regions as used as the call on the lists as given.   *)
(***************************************************************************)
Perms(n) == { p \in [1..n -> 1..n] : \A i, j \in 1..n : p[i] = p[j] => i = j }
Permuted(xs, p) == [k \in 1..Len(xs) |-> xs[p[k]]]
MarkedUsed(xs, u) == { xs[k] : k \in { i \in 1..Len(xs) : u[i] = 1 } }

SameOutcomePermuted(p, q) ==
    LET A == Permuted(rectsChA, p)
        B == Permuted(rectsChB, q)
        r == getCCRectBinary(A, B, Permuted(matchPre.usedA, p),
                             Permuted(matchPre.usedB, q), matchPre.ccRects, code)
    IN  /\ r.ret = matchRet
        /\ r.ccRects = ccRects
        /\ MarkedUsed(A, r.usedA) = MarkedUsed(rectsChA, usedA)
        /\ MarkedUsed(B, r.usedB) = MarkedUsed(rectsChB, usedB)

C13_OrderIndependent ==
    Returned => \A p \in Perms(Len(rectsChA)), q \in Perms(Len(rectsChB)) :
                    SameOutcomePermuted(p, q)

\* the found / not-found result alone does not depend on the order
C13_FoundOrderIndependent ==
    Returned => \A p \in Perms(Len(rectsChA)), q \in Perms(Len(rectsChB)) :
                    getCCRectBinary(Permuted(rectsChA, p), Permuted(rectsChB, q),
                                    Permuted(matchPre.usedA, p),
                                    Permuted(matchPre.usedB, q),
                                    matchPre.ccRects, code).ret = matchRet

\* two pairs tie and the first one scanned was taken: the list in the other
\* order gives the other composite
C13_TieTaken ==
    /\ Returned /\ matchRet = 0
    /\ rectsChA = <<Rect(0, 0, 10, 10), Rect(10, 10, 10, 10)>>
    /\ rectsChB = <<Rect(5, 5, 10, 10)>>
    /\ AllClear(matchPre.usedA) /\ AllClear(matchPre.usedB)
    /\ ccRects[code] = Rect(0, 0, 15, 15)
    /\ getCCRectBinary(<<rectsChA[2], rectsChA[1]>>, rectsChB, matchPre.usedA,
                       matchPre.usedB, matchPre.ccRects, code).ccRects[code]
         = Rect(5, 5, 15, 15)

(***************************************************************************)
(* C14.  Invalid calibration geometry has no effect.  A frame processed in *)
(* Calibrating while the box is degenerate (x1 >= x2 or y1 >= y2) or has a *)
(* coordinate outside the frame leaves the threshold of the active channel *)
(* exactly as it was before the frame.                                     *)
(***************************************************************************)
Degenerate(B) == B[1] >= B[3] \/ B[2] >= B[4]
OutOfBounds(B) ==
    ~(B[1] \in 0..FrameW /\ B[3] \in 0..FrameW /\ B[2] \in 0..FrameH /\ B[4] \in 0..FrameH)

C14_InvalidBoxNoEffect ==
    [][(FrameStep /\ trackModeFlag = 0 /\ (Degenerate(BBOX) \/ OutOfBounds(BBOX)))
          => /\ HSVMINALL'[channelFlag'] = HSVMINALL[channelFlag']
             /\ HSVMAXALL'[channelFlag'] = HSVMAXALL[channelFlag']]_vars

\* a click without drag in Calibrating: the frame that followed replaced the
\* loaded threshold of channel 0 by the empty range
C14_ThresholdWiped ==
    /\ pc = "waitKey" /\ trackModeFlag = 0 /\ frameCount = 2
    /\ BBOX = <<0, 0, 0, 0>> /\ channelFlag = 0 /\ loadRet = 0
    /\ HSVMINALL[0] = <<255, 255, 255>> /\ HSVMAXALL[0] = <<0, 0, 0>>
    /\ HSVMINALL[1] = StoredMin[1] /\ HSVMAXALL[1] = StoredMax[1]

(***************************************************************************)
(* C15.  A degenerate box yields the empty range.  When getBoundingBoxHSV  *)
(* has run with a box of zero area or an inverted box (x1 >= x2 or         *)
(* y1 >= y2), the active channel holds MIN = (255,255,255) and             *)
(* MAX = (0,0,0), whatever it held before; the other channels hold what    *)
(* they held.                                                              *)
(***************************************************************************)
C15_DegenerateEmptyRange ==
    (pc = "sampled" /\ Degenerate(BBOX)) =>
        /\ HSVMINALL[channelFlag] = <<255, 255, 255>>
        /\ HSVMAXALL[channelFlag] = <<0, 0, 0>>
        /\ \A ch \in (0..2) \ {channelFlag} :
              /\ HSVMINALL[ch] = frameEnd[1][ch]
              /\ HSVMAXALL[ch] = frameEnd[2][ch]

\* an inverted box (a right-to-left drag) over a channel that held a
\* threshold of its own
C15_Witness ==
    /\ pc = "sampled"
    /\ BBOX = <<FrameW, 0, 0, FrameH>>
    /\ frameEnd[1][channelFlag] = <<5 + channelFlag, 0, 8>>
    /\ HSVMINALL[channelFlag] = <<255, 255, 255>>
    /\ HSVMAXALL[channelFlag] = <<0, 0, 0>>

(***************************************************************************)
(* C16.  Sampler input is well-formed.  Whenever a frame is processed in   *)
(* Calibrating, the box the mouse events left has its four coordinates     *)
(* inside the frame and satisfies x1 < x2 and y1 < y2.                     *)
(***************************************************************************)
C16_BoxWellFormed ==
    [][(FrameStep /\ trackModeFlag = 0)
          => (~OutOfBounds(BBOX) /\ BBOX[1] < BBOX[3] /\ BBOX[2] < BBOX[4])]_vars

\* a drag from the bottom right corner to the top left one, sampled
C16_InvertedBoxSampled ==
    /\ pc = "waitKey" /\ trackModeFlag = 0 /\ frameCount = 2
    /\ mouseDraggedFlag = 1 /\ BBOX = <<FrameW, FrameH, 0, 0>>
    /\ HSVMINALL[channelFlag] = <<255, 255, 255>>

(***************************************************************************)
(* C17.  Threshold write set per frame.  A frame processed in Tracking     *)
(* changes no threshold.  A frame processed in Calibrating changes at most *)
(* the threshold of the channel active in that frame.  Every other step of *)
(* the running program (a mouse event, a key that ends the loop, a failed  *)
(* read) changes no threshold.                                             *)
(***************************************************************************)
C17_ThresholdWriteSet ==
    /\ [][(FrameStep /\ trackModeFlag = 1)
            => (HSVMINALL' = HSVMINALL /\ HSVMAXALL' = HSVMAXALL)]_vars
    /\ [][(FrameStep /\ trackModeFlag = 0)
            => \A ch \in (0..2) \ {channelFlag'} :
                  HSVMINALL'[ch] = HSVMINALL[ch] /\ HSVMAXALL'[ch] = HSVMAXALL[ch]]_vars
    /\ [][(~FrameStep /\ pc \in {"loop", "waitKey"})
            => (HSVMINALL' = HSVMINALL /\ HSVMAXALL' = HSVMAXALL)]_vars

\* channel 2 was calibrated over loaded thresholds: the other two channels
\* hold what was loaded
C17_Witness ==
    /\ pc = "waitKey" /\ trackModeFlag = 0 /\ channelFlag = 2 /\ loadRet = 0
    /\ HSVMINALL[2] = <<7, 1, 9>> /\ HSVMAXALL[2] = <<7, 1, 9>>
    /\ HSVMINALL[0] = StoredMin[0] /\ HSVMAXALL[0] = StoredMax[0]
    /\ HSVMINALL[1] = StoredMin[1] /\ HSVMAXALL[1] = StoredMax[1]

(***************************************************************************)
(* C19.  Controller state is always valid.  In every state of the running  *)
(* program, whatever keys, mouse events and frames came before,            *)
(* trackModeFlag is 0 or 1 and channelFlag is 0, 1 or 2, an index of the   *)
(* threshold arrays.                                                       *)
(***************************************************************************)
C19_ControllerStateValid ==
    /\ trackModeFlag \in {0, 1}
    /\ channelFlag \in {0, 1, 2}
    /\ (pc \in {"loop", "waitKey", "exited"})
          => (channelFlag \in DOMAIN HSVMINALL /\ channelFlag \in DOMAIN HSVMAXALL)

\* in Calibrating, in the middle of a drag, after a key that selects nothing
C19_Witness ==
    /\ pc = "waitKey" /\ charCheckForKey = 97 /\ frameCount = 2
    /\ trackModeFlag = 0 /\ mouseDraggedFlag = 1 /\ channelFlag = 0

(***************************************************************************)
(* C18.  Tracking does not depend on the active channel.  In a call of     *)
(* detectCCBlobs the passes run in the order {1,2}, {1,3}, {2,3} with the  *)
(* codes 0, 1, 2, each once and whatever the earlier passes returned; and  *)
(* the composites and usage markers the call ends with are those three     *)
(* passes' results on the frame's boxes alone, the same for every value of *)
(* channelFlag.                                                            *)
(***************************************************************************)
PassesDone ==
    IF fpc \in {"extract", "dilate", "markers", "pass12"} THEN 0
    ELSE IF fpc = "pass13" THEN 1 ELSE IF fpc = "pass23" THEN 2 ELSE 3

\* the three passes on the boxes b, written out pair by pair
TrackingResult(b) ==
    LET f == [ch \in 1..3 |-> dilateRects(dilateFactor, getThresholdRects(b[ch], <<>>))]
        u == [ch \in 1..3 |-> [i \in 1..Len(f[ch]) |-> 0]]
        r12 == getCCRectBinary(f[1], f[2], u[1], u[2], ZeroCC, 0)
        r13 == getCCRectBinary(f[1], f[3], r12.usedA, u[3], r12.ccRects, 1)
        r23 == getCCRectBinary(f[2], f[3], r12.usedB, r13.usedB, r13.ccRects, 2)
    IN  [ccRects |-> r23.ccRects, used |-> <<r13.usedA, r23.usedA, r23.usedB>>,
         rets |-> <<r12.ret, r13.ret, r23.ret>>]

C18_TrackingIgnoresChannel ==
    /\ Len(passLog) = PassesDone
    /\ \A k \in DOMAIN passLog : passLog[k].code = k - 1
    /\ fpc = "done" =>
          \E t \in {TrackingResult(boundRect)} :
             /\ myCCRects = t.ccRects
             /\ usedRectsCh = t.used
             /\ \A k \in 1..3 : passLog[k].ret = t.rets[k]

\* channel 3 active; pass {1,2} found nothing and the two later passes ran,
\* pass {1,3} finding a composite
C18_Witness ==
    /\ fpc = "done" /\ channelFlag = 2
    /\ passLog[1].ret = 1 /\ passLog[2].ret = 0
    /\ myCCRects[1] # EmptyRect /\ myCCRects[0] = EmptyRect

(***************************************************************************)
(* C20.  Empty results never abort a frame.  For all region sets, empty    *)
(* ones and ones without an overlapping cross-channel pair included, every *)
(* pass ends with the result 0 or 1; a pass that found a pair names a      *)
(* region of each of its two sets, and the markers of a set are as many as *)
(* its regions, so no region or marker outside the sets is touched; every  *)
(* step of the call moves on to its next stage, and from every stage but   *)
(* the last the call can take a step: it always arrives at its end.        *)
(***************************************************************************)
Stage ==
    IF fpc = "extract" THEN 0 ELSE IF fpc = "dilate" THEN 1
    ELSE IF fpc = "markers" THEN 2 ELSE IF fpc = "pass12" THEN 3
    ELSE IF fpc = "pass13" THEN 4 ELSE IF fpc = "pass23" THEN 5
    ELSE IF fpc = "done" THEN 6 ELSE -1

PassInBounds(k) ==
    LET chs == <<<<1, 2>>, <<1, 3>>, <<2, 3>>>>[passLog[k].code + 1]
    IN  /\ passLog[k].ret \in {0, 1}
        /\ \A side \in 1..2 :
              Len(passLog[k].usedBefore[chs[side]]) = Len(myFilteredRects[chs[side]])
        /\ passLog[k].ret = 0 =>
              \A side \in 1..2 :
                 passLog[k].target[side] \in 1..Len(myFilteredRects[chs[side]])

C20_EmptyNeverAborts ==
    /\ Stage \in 0..6
    /\ \A k \in DOMAIN passLog : PassInBounds(k)
    /\ Stage >= 3 => \A ch \in 1..3 : Len(usedRectsCh[ch]) = Len(myFilteredRects[ch])
    /\ Stage < 6 => ENABLED NextFrame
    /\ (Stage = 6) => (Len(passLog) = 3)

\* a frame without any region above the area threshold ran to its end with
\* three not-found results
C20_Witness ==
    /\ fpc = "done"
    /\ \A ch \in 1..3 : myFilteredRects[ch] = <<>>
    /\ \E ch \in 1..3 : boundRect[ch] # <<>>
    /\ \A k \in 1..3 : passLog[k].ret = 1
    /\ \A c \in 0..2 : myCCRects[c] = EmptyRect

(***************************************************************************)
(* C21.  A not-found pass changes nothing.  A call of getCCRectBinary that *)
(* returns 1 leaves every usage marker and every region of both sets and   *)
(* every composite slot as it was.  A call that returns 0 leaves the       *)
(* regions as they were and writes the composite slot of its code, the     *)
(* marker of the region it took from A and the marker of the region it     *)
(* took from B, and nothing else.                                          *)
(***************************************************************************)
C21_NotFoundChangesNothing ==
    /\ [][matchRet' = 1 =>
            /\ usedA' = usedA /\ usedB' = usedB
            /\ rectsChA' = rectsChA /\ rectsChB' = rectsChB
            /\ ccRects' = ccRects]_vars
    /\ [][matchRet' = 0 =>
            /\ rectsChA' = rectsChA /\ rectsChB' = rectsChB
            /\ DOMAIN ccRects' = DOMAIN ccRects
            /\ \A k \in DOMAIN ccRects : k # code => ccRects'[k] = ccRects[k]
            /\ Len(usedA') = Len(usedA) /\ Len(usedB') = Len(usedB)
            /\ \A i \in DOMAIN usedA : i # target'[1] => usedA'[i] = usedA[i]
            /\ \A j \in DOMAIN usedB : j # target'[2] => usedB'[j] = usedB[j]]_vars

\* the third pass found nothing because the one overlapping pair has a used
\* region: the marker and the composites of the earlier passes stand
C21_Witness ==
    /\ matchRet = 1 /\ code = 2
    /\ Len(rectsChA) = 2 /\ Len(rectsChB) = 2
    /\ usedA = <<1, 0>> /\ usedB = <<0, 1>>
    /\ PositiveOverlap(rectsChA[1], rectsChB[1])
    /\ ccRects[0] = Rect(1, 2, 3, 4) /\ ccRects[1] = Rect(2, 3, 4, 5)
    /\ ccRects[2] = EmptyRect

(***************************************************************************)
(* C22.  Usage accounting per frame.  When the first pass starts, every    *)
(* usage marker is clear; from then on each channel has as many markers as *)
(* regions.  After the three passes the number of regions marked used in a *)
(* channel is the number of successful passes the channel took part in, at *)
(* most 2; the markers set in all three channels are twice the composites  *)
(* produced; and at most 3 composites, one per channel pair, are produced. *)
(***************************************************************************)
UsedCount(ch) == Cardinality({ i \in DOMAIN usedRectsCh[ch] : usedRectsCh[ch][i] = 1 })
PairOfPass(k) == <<<<1, 2>>, <<1, 3>>, <<2, 3>>>>[k]
SuccessfulPasses == { k \in DOMAIN passLog : passLog[k].ret = 0 }
SuccessfulPassesOf(ch) ==
    { k \in SuccessfulPasses : PairOfPass(k)[1] = ch \/ PairOfPass(k)[2] = ch }
Composites == { c \in 0..2 : myCCRects[c] # EmptyRect }

C22_UsageAccounting ==
    /\ fpc = "pass12" => \A ch \in 1..3 : AllClear(usedRectsCh[ch])
    /\ fpc \in {"pass12", "pass13", "pass23", "done"} =>
          \A ch \in 1..3 : Len(usedRectsCh[ch]) = Len(myFilteredRects[ch])
    /\ fpc = "done" =>
          /\ \A ch \in 1..3 :
                /\ UsedCount(ch) = Cardinality(SuccessfulPassesOf(ch))
                /\ UsedCount(ch) <= 2
          /\ Composites = { k - 1 : k \in SuccessfulPasses }
          /\ UsedCount(1) + UsedCount(2) + UsedCount(3) = 2 * Cardinality(Composites)
          /\ Cardinality(Composites) <= 3
          /\ \A c \in 3..(NCCRects - 1) : myCCRects[c] = EmptyRect

\* all three passes succeeded: two regions used in every channel, six
\* markers set for three composites
C22_Witness ==
    /\ fpc = "done"
    /\ \A k \in 1..3 : passLog[k].ret = 0
    /\ \A ch \in 1..3 : usedRectsCh[ch] = <<1, 1>>
    /\ \A c \in 0..2 : myCCRects[c] # EmptyRect

====
